---------------------------- MODULE Spec2Model ----------------------------
(***************************************************************************)
(* Model of src/cmd/embedding/embedding.py: the FastAPI embedding server.  *)
(*                                                                         *)
(* State: the four module-level handles loaded by lifespan(), and the      *)
(* locals of one create_embeddings() call.  The handler is an `async def`  *)
(* with no await inside its body, so one call runs to completion before    *)
(* anything else on the event loop; the model therefore handles one        *)
(* request at a time, step by step, and lets lifespan() move only between  *)
(* requests.                                                               *)
(*                                                                         *)
(* Python values carry their type in a `pytype` field:                     *)
(*   str            [pytype |-> "str",  v |-> <<characters>>]              *)
(*   None           [pytype |-> "NoneType"]                                *)
(*   dict           [pytype |-> "dict", d |-> function over its keys]      *)
(*   list           [pytype |-> "list", v |-> <<elements>>]                *)
(*   EmbeddingInput [pytype |-> "EmbeddingInput", type, text, image_url]   *)
(* The pretrained models, the tokenizer, base64 and PIL are external: a    *)
(* vector is named by the model that produced it and by what it was        *)
(* computed from, a decoded image by the payload it was decoded from.      *)
(***************************************************************************)
EXTENDS Naturals, Sequences, FiniteSets

VARIABLES
    processor, vision_model, tokenizer, text_model,  \* module globals
    startup,          \* position of lifespan(): "loading", "serving", "failed"
    pc,               \* position of create_embeddings()
    request,          \* request.input of the call being handled
    pos,              \* index of the next item of `for item in request.input`
    texts, images, input_types, total_tokens,
    all_embeddings, embeddings_list,
    calls,            \* the embedder calls made by this request, in order
    decoded,          \* the data URLs handed to decode_base64_image
    raised,           \* the exception raised inside the try block, if any
    response          \* what the caller receives

vars == <<processor, vision_model, tokenizer, text_model, startup, pc, request,
          pos, texts, images, input_types, total_tokens, all_embeddings,
          embeddings_list, calls, decoded, raised, response>>

handles == <<processor, vision_model, tokenizer, text_model>>

locals == <<pos, texts, images, input_types, total_tokens, all_embeddings,
            embeddings_list, calls, decoded, raised>>

-----------------------------------------------------------------------------
(* Bounds of the model. *)

\* Longest request.input list.
MaxLen == 3

-----------------------------------------------------------------------------
(* Python values. *)

None == [pytype |-> "NoneType"]

Str(chars) == [pytype |-> "str", v |-> chars]

Dict(d) == [pytype |-> "dict", d |-> d]

List(elems) == [pytype |-> "list", v |-> elems]

isinstance(x, t) == x.pytype = t

\* str.startswith(prefix)
startswith(s, prefix) ==
    /\ Len(s.v) >= Len(prefix)
    /\ SubSeq(s.v, 1, Len(prefix)) = prefix

\* len(s.split()): the maximal runs of non-whitespace characters
str_split_len(s) ==
    Cardinality({k \in 1..Len(s.v) :
                    /\ s.v[k] # " "
                    /\ (k = 1 \/ s.v[k - 1] = " ")})

\* Python truth value of an Optional[str] or Optional[dict]
truthy(x) ==
    CASE isinstance(x, "NoneType") -> FALSE
      [] isinstance(x, "str") -> Len(x.v) > 0
      [] isinstance(x, "dict") -> DOMAIN x.d # {}

\* position of the first "," of a character sequence, 0 when there is none
FirstComma(chars) ==
    IF \E k \in 1..Len(chars) : chars[k] = ","
    THEN CHOOSE k \in 1..Len(chars) :
            /\ chars[k] = ","
            /\ \A j \in 1..(k - 1) : chars[j] # ","
    ELSE 0

-----------------------------------------------------------------------------
(* The character sequences the requests are drawn from. *)

SearchQuery == <<"s","e","a","r","c","h","_","q","u","e","r","y",":">>

SearchDocument ==
    <<"s","e","a","r","c","h","_","d","o","c","u","m","e","n","t",":">>

DataPrefix == <<"d","a","t","a",":">>

HelloWorld == <<"h","e","l","l","o"," ","w","o","r","l","d">>

\* base64 payloads that decode to an image PIL can open
ImagePayloads == {<<"A","A">>, <<"B","B">>}

InputStrings ==
    {Str(<<>>), Str(<<"a">>), Str(HelloWorld), Str(SearchDocument \o <<" ", "a">>)}

ItemTexts == {None, Str(<<>>), Str(<<"a">>), Str(HelloWorld)}

Urls ==
    { Str(DataPrefix \o <<",","A","A">>),       \* data:,AA
      Str(DataPrefix \o <<",","B","B">>),       \* data:,BB
      Str(DataPrefix \o <<",","!","!">>),       \* payload is no image
      Str(DataPrefix \o <<"A","A">>),           \* data: with no comma
      Str(<<"h","t","t","p",":","A","A">>) }    \* not a data URL

ImageUrls ==
    {None, Dict(<<>>), Dict([detail |-> Str(<<"l","o","w">>)])}
        \cup {Dict([url |-> u]) : u \in Urls}

EmbeddingInput(type, text, image_url) ==
    [pytype |-> "EmbeddingInput", type |-> type, text |-> text,
     image_url |-> image_url]

Items ==
    {EmbeddingInput("text", t, None) : t \in ItemTexts}
        \cup {EmbeddingInput("image_url", None, d) : d \in ImageUrls}
        \cup {EmbeddingInput("video", None, None)}

SeqsUpTo(S, n) == UNION {[1..k -> S] : k \in 0..n}

\* EmbeddingRequest.input: Union[str, List[str], List[EmbeddingInput]]
Inputs ==
    InputStrings
        \cup {List(l) : l \in SeqsUpTo(InputStrings, MaxLen)}
        \cup {List(l) : l \in SeqsUpTo(Items, MaxLen)}

-----------------------------------------------------------------------------
(* Results and exceptions. *)

Ok(value) == [ok |-> TRUE, value |-> value]

Raise(exc, value) == [ok |-> FALSE, exc |-> exc, value |-> value]

HTTPException(status_code, detail) ==
    [kind |-> "HTTPException", status_code |-> status_code, detail |-> detail]

Exception(kind) == [kind |-> kind]

NoException == [kind |-> "none"]

NoResponse == [status_code |-> 0]

-----------------------------------------------------------------------------
(* lifespan(): the four loads, in the order of the try block. *)

Loaded(what) == [pytype |-> what]

LoadOrder_modelsFirst == <<"vision_model", "text_model", "processor", "tokenizer">>

LoadOrder == <<"processor", "vision_model", "tokenizer", "text_model">>

-----------------------------------------------------------------------------
(* The helpers of the handler. *)

\* PIL's image.convert('RGB') of the image a payload decodes to
RGBImage(payload) == [mode |-> "RGB", pixels |-> payload]

\* decode_base64_image without its try/except: the exception escapes as it is
decode_base64_image_unwrapped(base64_string) ==
    LET comma == FirstComma(base64_string.v)
        isData == startswith(base64_string, DataPrefix)
        payload == IF isData
                   THEN SubSeq(base64_string.v, comma + 1, Len(base64_string.v))
                   ELSE base64_string.v
    IN  IF isData /\ comma = 0
        THEN Raise(Exception("IndexError"), None)
        ELSE IF payload \notin ImagePayloads
        THEN Raise(Exception("UnidentifiedImageError"), None)
        ELSE Ok(RGBImage(payload))

decode_base64_image(base64_string) ==
    LET comma == FirstComma(base64_string.v)
        isData == startswith(base64_string, DataPrefix)
        \* base64_string.split(',', 1)[1]
        payload == IF isData
                   THEN SubSeq(base64_string.v, comma + 1, Len(base64_string.v))
                   ELSE base64_string.v
    IN  IF isData /\ comma = 0
        THEN \* IndexError, caught by `except Exception`
             Raise(HTTPException(400, "Invalid base64 image"), None)
        ELSE IF payload \notin ImagePayloads
        THEN \* base64.b64decode or Image.open fails
             Raise(HTTPException(400, "Invalid base64 image"), None)
        ELSE Ok(RGBImage(payload))

\* the search_query prefix of process_text_input
prefixed(text) ==
    IF ~startswith(text, SearchQuery) /\ ~startswith(text, SearchDocument)
    THEN Str(SearchQuery \o <<" ">> \o text.v)
    ELSE text

\* one row of the tensor a model returns
TextVector(text) == [model |-> "nomic-embed-text-v1.5", of |-> text.v]

ImageVector(image) == [model |-> "nomic-embed-vision-v1.5", of |-> image.pixels]

\* process_text_input(texts); backend_ok: the tokenizer and model calls succeed
process_text_input(batch, backend_ok) ==
    IF text_model = None
    THEN Raise(Exception("AttributeError"), None)     \* None.parameters
    ELSE IF \E k \in 1..Len(batch) : isinstance(batch[k], "NoneType")
    THEN Raise(Exception("AttributeError"), None)     \* None.startswith
    ELSE IF tokenizer = None
    THEN Raise(Exception("TypeError"), None)          \* None(...)
    ELSE IF ~backend_ok
    THEN Raise(Exception("RuntimeError"), None)
    ELSE Ok([k \in 1..Len(batch) |-> TextVector(prefixed(batch[k]))])

\* process_image_input(images)
process_image_input(batch, backend_ok) ==
    IF vision_model = None
    THEN Raise(Exception("AttributeError"), None)     \* None.parameters
    ELSE IF processor = None
    THEN Raise(Exception("TypeError"), None)
    ELSE IF ~backend_ok
    THEN Raise(Exception("RuntimeError"), None)
    ELSE Ok([k \in 1..Len(batch) |-> ImageVector(batch[k])])

\* the handler's first statement
models_not_loaded_both == vision_model = None /\ text_model = None

models_not_loaded == vision_model = None \/ text_model = None

\* len(item.text.split()) if item.text else 0
item_text_tokens_chars(text) == IF truthy(text) THEN Len(text.v) ELSE 0

item_text_tokens(text) == IF truthy(text) THEN str_split_len(text) ELSE 0

\* `if texts:` and `if images:`
nonempty_always(batch) == TRUE

nonempty(batch) == Len(batch) > 0

\* the two except clauses of the handler
except_clauses_all500(exc) == [status_code |-> 500, detail |-> exc.kind]

except_clauses(exc) ==
    IF exc.kind = "HTTPException"
    THEN [status_code |-> exc.status_code, detail |-> exc.detail]
    ELSE [status_code |-> 500, detail |-> exc.kind]

\* [EmbeddingData(embedding=embedding, index=i) for i, embedding in enumerate(...)]
response_data_from1(embeddings) ==
    [k \in 1..Len(embeddings) |-> [embedding |-> embeddings[k], index |-> k]]

response_data(embeddings) ==
    [k \in 1..Len(embeddings) |-> [embedding |-> embeddings[k], index |-> k - 1]]

-----------------------------------------------------------------------------
(* The body of `for item in request.input`, on the locals it reads and     *)
(* writes: L = [texts, images, input_types, total_tokens, calls, decoded]. *)

\* a loop body that embeds each text as soon as it is met
loop_body_eager(item, L) ==
    IF item.type = "text"
    THEN Ok([L EXCEPT !.texts = Append(@, item.text),
                      !.input_types = Append(@, "text"),
                      !.total_tokens = @ + item_text_tokens(item.text),
                      !.calls = Append(@, [embedder |-> "text",
                                           batch |-> <<item.text>>])])
    ELSE IF item.type = "image_url"
    THEN IF ~truthy(item.image_url) \/ "url" \notin DOMAIN item.image_url.d
         THEN Raise(HTTPException(400, "image_url must contain 'url' field"), L)
         ELSE LET url == item.image_url.d.url
                  D == [L EXCEPT !.decoded = Append(@, url)]
                  image == decode_base64_image(url)
              IN  IF ~startswith(url, DataPrefix)
                  THEN Raise(HTTPException(400,
                          "Only base64 data URLs are supported for images"), L)
                  ELSE IF ~image.ok
                  THEN Raise(image.exc, D)
                  ELSE Ok([D EXCEPT !.images = Append(@, image.value),
                                    !.input_types = Append(@, "image"),
                                    !.total_tokens = @ + 1])
    ELSE Raise(HTTPException(400, "Unsupported input type"), L)

loop_body(item, L) ==
    IF item.type = "text"
    THEN Ok([L EXCEPT !.texts = Append(@, item.text),
                      !.input_types = Append(@, "text"),
                      !.total_tokens = @ + item_text_tokens(item.text)])
    ELSE IF item.type = "image_url"
    THEN IF ~truthy(item.image_url) \/ "url" \notin DOMAIN item.image_url.d
         THEN Raise(HTTPException(400, "image_url must contain 'url' field"), L)
         ELSE LET url == item.image_url.d.url
                  D == [L EXCEPT !.decoded = Append(@, url)]
                  image == decode_base64_image(url)
              IN  IF ~startswith(url, DataPrefix)
                  THEN Raise(HTTPException(400,
                          "Only base64 data URLs are supported for images"), L)
                  ELSE IF ~image.ok
                  THEN Raise(image.exc, D)
                  ELSE Ok([D EXCEPT !.images = Append(@, image.value),
                                    !.input_types = Append(@, "image"),
                                    !.total_tokens = @ + 1])  \* an image is 1 token
    ELSE Raise(HTTPException(400, "Unsupported input type"), L)

-----------------------------------------------------------------------------
(* Initial state: the module has been imported, nothing is loaded. *)

Init ==
    /\ processor = None
    /\ vision_model = None
    /\ tokenizer = None
    /\ text_model = None
    /\ startup = "loading"
    /\ pc = "idle"
    /\ request = None
    /\ pos = 1
    /\ texts = <<>>
    /\ images = <<>>
    /\ input_types = <<>>
    /\ total_tokens = 0
    /\ all_embeddings = <<>>
    /\ embeddings_list = <<>>
    /\ calls = <<>>
    /\ decoded = <<>>
    /\ raised = NoException
    /\ response = NoResponse

-----------------------------------------------------------------------------
(* lifespan() *)

\* the handles loaded so far, in the order of assignment
LoadedCount ==
    Cardinality({k \in 1..Len(LoadOrder) :
        \/ LoadOrder[k] = "processor" /\ processor # None
        \/ LoadOrder[k] = "vision_model" /\ vision_model # None
        \/ LoadOrder[k] = "tokenizer" /\ tokenizer # None
        \/ LoadOrder[k] = "text_model" /\ text_model # None})

\* the next from_pretrained call of the try block: it returns, or it raises
\* and lifespan re-raises
StartupLoad ==
    /\ pc = "idle"
    /\ startup = "loading"
    /\ LoadedCount < Len(LoadOrder)
    /\ \E ok \in BOOLEAN :
        LET name == LoadOrder[LoadedCount + 1]
        IN  IF ok
            THEN /\ processor' = IF name = "processor"
                                 THEN Loaded("AutoImageProcessor") ELSE processor
                 /\ vision_model' = IF name = "vision_model"
                                    THEN Loaded("AutoModel") ELSE vision_model
                 /\ tokenizer' = IF name = "tokenizer"
                                 THEN Loaded("AutoTokenizer") ELSE tokenizer
                 /\ text_model' = IF name = "text_model"
                                  THEN Loaded("AutoModel") ELSE text_model
                 /\ UNCHANGED startup
            ELSE /\ startup' = "failed"
                 /\ UNCHANGED handles
    /\ UNCHANGED <<pc, request, response, locals>>

\* eval() and to(device) of both models, then the yield
StartupConfigure ==
    /\ pc = "idle"
    /\ startup = "loading"
    /\ LoadedCount = Len(LoadOrder)
    /\ \E ok \in BOOLEAN : startup' = IF ok THEN "serving" ELSE "failed"
    /\ UNCHANGED <<handles, pc, request, response, locals>>

-----------------------------------------------------------------------------
(* create_embeddings() *)

\* an exception leaves the try block: the except clauses decide the reply
Fails(exc) ==
    /\ raised' = exc
    /\ response' = except_clauses(exc)
    /\ pc' = "done"

\* a request arrives; the locals are those of a fresh call.  The handler is
\* a plain coroutine function: create_embeddings_alt, or a test client that
\* never runs lifespan(), can call it in any state of the module globals,
\* which is what its own readiness check is for.
Receive ==
    /\ pc = "idle"
    /\ \E input \in Inputs : request' = input
    /\ pc' = "check"
    /\ pos' = 1
    /\ texts' = <<>>
    /\ images' = <<>>
    /\ input_types' = <<>>
    /\ total_tokens' = 0
    /\ all_embeddings' = <<>>
    /\ embeddings_list' = <<>>
    /\ calls' = <<>>
    /\ decoded' = <<>>
    /\ raised' = NoException
    /\ response' = NoResponse
    /\ UNCHANGED <<handles, startup>>

\* `if vision_model is None or text_model is None`, before the try block
ReadinessCheck ==
    /\ pc = "check"
    /\ IF models_not_loaded
       THEN /\ response' = [status_code |-> 503, detail |-> "Models not loaded"]
            /\ pc' = "done"
       ELSE /\ pc' = "dispatch"
            /\ UNCHANGED response
    /\ UNCHANGED <<handles, startup, request, locals>>

\* isinstance(request.input, str): a single text
HandleString ==
    /\ pc = "dispatch"
    /\ isinstance(request, "str")
    /\ \E backend_ok \in BOOLEAN :
        LET embeddings == process_text_input(<<request>>, backend_ok)
        IN  /\ calls' = Append(calls, [embedder |-> "text", batch |-> <<request>>])
            /\ IF embeddings.ok
               THEN /\ embeddings_list' = embeddings_list \o embeddings.value
                    /\ total_tokens' = total_tokens + str_split_len(request)
                    /\ pc' = "respond"
                    /\ UNCHANGED <<raised, response>>
               ELSE /\ Fails(embeddings.exc)
                    /\ UNCHANGED <<embeddings_list, total_tokens>>
    /\ UNCHANGED <<handles, startup, request, pos, texts, images, input_types,
                   all_embeddings, decoded>>

\* len(request.input) == 0
HandleEmptyList ==
    /\ pc = "dispatch"
    /\ isinstance(request, "list")
    /\ Len(request.v) = 0
    /\ Fails(HTTPException(400, "Empty input list"))
    /\ UNCHANGED <<handles, startup, request, pos, texts, images, input_types,
                   total_tokens, all_embeddings, embeddings_list, calls, decoded>>

\* isinstance(request.input[0], str): a list of texts
HandleStringList ==
    /\ pc = "dispatch"
    /\ isinstance(request, "list")
    /\ Len(request.v) > 0
    /\ isinstance(request.v[1], "str")
    /\ \E backend_ok \in BOOLEAN :
        LET embeddings == process_text_input(request.v, backend_ok)
            words == [k \in 1..Len(request.v) |-> str_split_len(request.v[k])]
            Sum[k \in 0..Len(words)] == IF k = 0 THEN 0 ELSE Sum[k - 1] + words[k]
        IN  /\ calls' = Append(calls, [embedder |-> "text", batch |-> request.v])
            /\ IF embeddings.ok
               THEN /\ embeddings_list' = embeddings_list \o embeddings.value
                    /\ total_tokens' = total_tokens + Sum[Len(words)]
                    /\ pc' = "respond"
                    /\ UNCHANGED <<raised, response>>
               ELSE /\ Fails(embeddings.exc)
                    /\ UNCHANGED <<embeddings_list, total_tokens>>
    /\ UNCHANGED <<handles, startup, request, pos, texts, images, input_types,
                   all_embeddings, decoded>>

\* the else branch: a list of EmbeddingInput objects
BeginItems ==
    /\ pc = "dispatch"
    /\ isinstance(request, "list")
    /\ Len(request.v) > 0
    /\ ~isinstance(request.v[1], "str")
    /\ pc' = "classify"
    /\ UNCHANGED <<handles, startup, request, response, locals>>

\* one iteration of `for item in request.input`
ClassifyItem ==
    /\ pc = "classify"
    /\ LET r == loop_body(request.v[pos],
                    [texts |-> texts, images |-> images,
                     input_types |-> input_types, total_tokens |-> total_tokens,
                     calls |-> calls, decoded |-> decoded])
       IN  /\ texts' = r.value.texts
           /\ images' = r.value.images
           /\ input_types' = r.value.input_types
           /\ total_tokens' = r.value.total_tokens
           /\ calls' = r.value.calls
           /\ decoded' = r.value.decoded
           /\ IF r.ok
              THEN /\ pos' = pos + 1
                   /\ pc' = IF pos = Len(request.v) THEN "embed_texts" ELSE "classify"
                   /\ UNCHANGED <<raised, response>>
              ELSE /\ Fails(r.exc)
                   /\ UNCHANGED pos
    /\ UNCHANGED <<handles, startup, request, all_embeddings, embeddings_list>>

\* `if texts: text_embeddings = process_text_input(texts)`
EmbedTexts ==
    /\ pc = "embed_texts"
    /\ IF nonempty(texts)
       THEN \E backend_ok \in BOOLEAN :
            LET text_embeddings == process_text_input(texts, backend_ok)
            IN  /\ calls' = Append(calls, [embedder |-> "text", batch |-> texts])
                /\ IF text_embeddings.ok
                   THEN /\ all_embeddings' =
                               Append(all_embeddings, text_embeddings.value)
                        /\ pc' = "embed_images"
                        /\ UNCHANGED <<raised, response>>
                   ELSE /\ Fails(text_embeddings.exc)
                        /\ UNCHANGED all_embeddings
       ELSE /\ pc' = "embed_images"
            /\ UNCHANGED <<calls, all_embeddings, raised, response>>
    /\ UNCHANGED <<handles, startup, request, pos, texts, images, input_types,
                   total_tokens, embeddings_list, decoded>>

\* `if images: image_embeddings = process_image_input(images)`
EmbedImages ==
    /\ pc = "embed_images"
    /\ IF nonempty(images)
       THEN \E backend_ok \in BOOLEAN :
            LET image_embeddings == process_image_input(images, backend_ok)
            IN  /\ calls' = Append(calls, [embedder |-> "image", batch |-> images])
                /\ IF image_embeddings.ok
                   THEN /\ all_embeddings' =
                               Append(all_embeddings, image_embeddings.value)
                        /\ pc' = "combine"
                        /\ UNCHANGED <<raised, response>>
                   ELSE /\ Fails(image_embeddings.exc)
                        /\ UNCHANGED all_embeddings
       ELSE /\ pc' = "combine"
            /\ UNCHANGED <<calls, all_embeddings, raised, response>>
    /\ UNCHANGED <<handles, startup, request, pos, texts, images, input_types,
                   total_tokens, embeddings_list, decoded>>

\* torch.cat(all_embeddings, dim=0): the batches' rows, in the order appended
Combine ==
    /\ pc = "combine"
    /\ LET Cat[k \in 0..Len(all_embeddings)] ==
               IF k = 0 THEN <<>> ELSE Cat[k - 1] \o all_embeddings[k]
       IN  embeddings_list' =
               IF Len(all_embeddings) > 0
               THEN embeddings_list \o Cat[Len(all_embeddings)]
               ELSE embeddings_list
    /\ pc' = "respond"
    /\ UNCHANGED <<handles, startup, request, response, pos, texts, images,
                   input_types, total_tokens, all_embeddings, calls, decoded,
                   raised>>

\* the EmbeddingResponse
Respond ==
    /\ pc = "respond"
    /\ response' = [status_code |-> 200,
                    data |-> response_data(embeddings_list),
                    usage |-> [prompt_tokens |-> total_tokens,
                               total_tokens |-> total_tokens]]
    /\ pc' = "done"
    /\ UNCHANGED <<handles, startup, request, locals>>

\* the caller has its reply; the call's frame is gone
Return ==
    /\ pc = "done"
    /\ pc' = "idle"
    /\ request' = None
    /\ pos' = 1
    /\ texts' = <<>>
    /\ images' = <<>>
    /\ input_types' = <<>>
    /\ total_tokens' = 0
    /\ all_embeddings' = <<>>
    /\ embeddings_list' = <<>>
    /\ calls' = <<>>
    /\ decoded' = <<>>
    /\ raised' = NoException
    /\ response' = NoResponse
    /\ UNCHANGED <<handles, startup>>

Handler ==
    \/ Receive
    \/ ReadinessCheck
    \/ HandleString
    \/ HandleEmptyList
    \/ HandleStringList
    \/ BeginItems
    \/ ClassifyItem
    \/ EmbedTexts
    \/ EmbedImages
    \/ Combine
    \/ Respond
    \/ Return

Next ==
    \/ StartupLoad
    \/ StartupConfigure
    \/ Handler

Spec == Init /\ [][Next]_vars

-----------------------------------------------------------------------------
(* What the claims speak of, stated on the request alone. *)

Done == pc = "done"

Status == response.status_code

BackendsLoaded == vision_model # None /\ text_model # None

\* request.input is a non-empty list of typed items
IsItemList ==
    /\ isinstance(request, "list")
    /\ Len(request.v) > 0
    /\ isinstance(request.v[1], "EmbeddingInput")

\* request.input is a single string or a non-empty list of strings
IsTextOnly ==
    \/ isinstance(request, "str")
    \/ /\ isinstance(request, "list")
       /\ Len(request.v) > 0
       /\ isinstance(request.v[1], "str")

\* the input texts of a text-only request, in input order
InputTexts == IF isinstance(request, "str") THEN <<request>> ELSE request.v

\* the part of a data URL after its first comma
PayloadOf(url) == SubSeq(url.v, FirstComma(url.v) + 1, Len(url.v))

HasUrl(item) ==
    /\ isinstance(item.image_url, "dict")
    /\ "url" \in DOMAIN item.image_url.d

\* an item the server must refuse with 400
BadItem(item) ==
    \/ item.type \notin {"text", "image_url"}
    \/ /\ item.type = "image_url"
       /\ \/ ~HasUrl(item)
          \/ /\ HasUrl(item)
             /\ LET url == item.image_url.d.url
                IN  \/ ~startswith(url, DataPrefix)
                    \/ FirstComma(url.v) = 0
                    \/ PayloadOf(url) \notin ImagePayloads

\* an input the server must refuse with 400
ClientErrorInput ==
    /\ isinstance(request, "list")
    /\ \/ Len(request.v) = 0
       \/ /\ isinstance(request.v[1], "EmbeddingInput")
          /\ \E k \in 1..Len(request.v) : BadItem(request.v[k])

\* the vector the i-th input must get
ExpectedVector(item) ==
    IF item.type = "text"
    THEN TextVector(prefixed(item.text))
    ELSE ImageVector(RGBImage(PayloadOf(item.image_url.d.url)))

\* words of a raw text, 0 for an absent one
Words(text) == IF isinstance(text, "str") THEN str_split_len(text) ELSE 0

\* the token count the claims give an input
ExpectedTokens ==
    IF isinstance(request, "str")
    THEN Words(request)
    ELSE LET l == request.v
             T[k \in 0..Len(l)] ==
                 IF k = 0 THEN 0
                 ELSE T[k - 1] + (IF isinstance(l[k], "str") THEN Words(l[k])
                                  ELSE IF l[k].type = "text" THEN Words(l[k].text)
                                  ELSE 1)
         IN  T[Len(l)]

\* the texts of a list of typed items, in input order
TextsOf(l) ==
    LET F[k \in 0..Len(l)] ==
            IF k = 0 THEN <<>>
            ELSE IF l[k].type = "text" THEN Append(F[k - 1], l[k].text)
            ELSE F[k - 1]
    IN  F[Len(l)]

\* the decoded images of a list of valid typed items, in input order
ImagesOf(l) ==
    LET F[k \in 0..Len(l)] ==
            IF k = 0 THEN <<>>
            ELSE IF l[k].type = "image_url"
            THEN Append(F[k - 1], RGBImage(PayloadOf(l[k].image_url.d.url)))
            ELSE F[k - 1]
    IN  F[Len(l)]

CallsTo(embedder) == {k \in 1..Len(calls) : calls[k].embedder = embedder}

-----------------------------------------------------------------------------
(* The claims. *)

\* C1: for a successful request whose input is a list of typed items,
\* data[i] carries index i and the embedding of the i-th item of the input,
\* whatever the interleaving of texts and images.
C1_OutputOrderIsInputOrder ==
    (Done /\ Status = 200 /\ IsItemList) =>
        /\ Len(response.data) = Len(request.v)
        /\ \A k \in 1..Len(request.v) :
            /\ response.data[k].index = k - 1
            /\ response.data[k].embedding = ExpectedVector(request.v[k])

\* C2: for a non-empty text-only input (a string, or a list of strings), a
\* successful response has one entry per input text, and entry i has index i
\* and the text embedder's vector for the i-th input text.
C2_TextOnlyLengthAndIndex ==
    (Done /\ Status = 200 /\ IsTextOnly) =>
        /\ Len(response.data) = Len(InputTexts)
        /\ \A k \in 1..Len(InputTexts) :
            /\ response.data[k].index = k - 1
            /\ response.data[k].embedding = TextVector(prefixed(InputTexts[k]))

C2_Witness ==
    /\ Done
    /\ Status = 200
    /\ isinstance(request, "list")
    /\ Len(request.v) >= 2
    /\ isinstance(request.v[1], "str")
    /\ request.v[1] # request.v[2]

\* C3: with both backends loaded, an empty list, or a list of typed items
\* with an item of unsupported type, an image_url item without a url, a url
\* that is no data URL, or a data URL that does not decode to an image (one
\* with no comma included), is answered with 400.
C3_ClientErrorsAre400 ==
    (Done /\ BackendsLoaded /\ ClientErrorInput) => Status = 400

C3_Witness ==
    /\ Done
    /\ Status = 400
    /\ IsItemList
    /\ Len(request.v) >= 2
    /\ request.v[1].type = "text"
    /\ \E k \in 2..Len(request.v) :
        /\ HasUrl(request.v[k])
        /\ startswith(request.v[k].image_url.d.url, DataPrefix)
        /\ FirstComma(request.v[k].image_url.d.url.v) = 0

\* C4: a request that ends with 400 has called neither embedder, wherever
\* the offending item sits and whatever valid items precede it.
C4_FailFast ==
    (raised.kind = "HTTPException" \/ (Done /\ Status = 400)) => calls = <<>>

C4_Witness ==
    /\ Done
    /\ Status = 400
    /\ Len(texts) >= 1
    /\ Len(images) >= 1
    /\ pos = 3

\* C5: a request handled while the text or the vision backend is not loaded
\* is answered with 503 at once: nothing is classified, no image is decoded
\* and no embedder is called, whatever the input.
C5_NotLoadedIs503 ==
    /\ (pc \notin {"idle", "check"} /\ ~BackendsLoaded) =>
            /\ Done
            /\ Status = 503
            /\ calls = <<>>
            /\ decoded = <<>>
            /\ input_types = <<>>
            /\ texts = <<>>
            /\ images = <<>>
            /\ pos = 1
            /\ raised = NoException
    /\ (Done /\ Status = 503) => ~BackendsLoaded

C5_Witness ==
    /\ Done
    /\ Status = 503
    /\ ClientErrorInput
    /\ vision_model # None
    /\ text_model = None

\* C6: in a successful response prompt_tokens = total_tokens = the words of
\* the raw texts plus 1 per image; "hello world" gives 2, and a 1-word text
\* item with one image gives 2.
C6_TokenUsage ==
    (Done /\ Status = 200) =>
        /\ response.usage.prompt_tokens = response.usage.total_tokens
        /\ response.usage.total_tokens = ExpectedTokens
        /\ request = Str(HelloWorld) => response.usage.prompt_tokens = 2
        /\ (/\ IsItemList
            /\ Len(request.v) = 2
            /\ request.v[1].text = Str(<<"a">>)
            /\ request.v[2].type = "image_url") =>
                response.usage.total_tokens = 2

C6_Witness ==
    /\ Done
    /\ Status = 200
    /\ IsItemList
    /\ input_types = <<"image", "text", "image">>
    /\ request.v[2].text = Str(HelloWorld)
    /\ response.usage.total_tokens = 4

\* C7: within a request each embedder is called at most once, never with an
\* empty batch, the text batch before the image batch, and each batch holds
\* its items in the order of the input.
C7_EmbedderCalls ==
    /\ Cardinality(CallsTo("text")) <= 1
    /\ Cardinality(CallsTo("image")) <= 1
    /\ Len(calls) = Cardinality(CallsTo("text")) + Cardinality(CallsTo("image"))
    /\ \A k \in 1..Len(calls) : Len(calls[k].batch) > 0
    /\ \A j, k \in 1..Len(calls) :
        (calls[j].embedder = "text" /\ calls[k].embedder = "image") => j < k
    /\ \A k \in CallsTo("text") :
        calls[k].batch = IF IsTextOnly THEN InputTexts ELSE TextsOf(request.v)
    /\ \A k \in CallsTo("image") :
        IsItemList /\ calls[k].batch = ImagesOf(request.v)

C7_Witness ==
    /\ Len(calls) = 2
    /\ calls[1].embedder = "text"
    /\ Len(calls[1].batch) = 2
    /\ calls[1].batch[1] # calls[1].batch[2]
    /\ calls[2].embedder = "image"
    /\ input_types = <<"text", "image", "text">>

\* C8: a handled request ends in exactly one of 200 with a full response,
\* 400, 503 and 500; an exception that is no client error gives 500 with no
\* embeddings and no second call of an embedder, and a 400 raised in the
\* handler stays a 400.
C8_OneOutcome ==
    Done =>
        /\ Status \in {200, 400, 503, 500}
        /\ Status = 200 =>
            /\ raised = NoException
            /\ Len(response.data) =
                  IF isinstance(request, "str") THEN 1 ELSE Len(request.v)
        /\ Status # 200 => "data" \notin DOMAIN response
        /\ raised.kind \notin {"none", "HTTPException"} => Status = 500
        /\ raised.kind = "HTTPException" =>
            /\ Status = raised.status_code
            /\ Status = 400
        /\ Status \in {400, 500} => raised # NoException
        /\ Cardinality(CallsTo("text")) <= 1
        /\ Cardinality(CallsTo("image")) <= 1

C8_Witness ==
    /\ Done
    /\ Status = 500
    /\ Len(calls) = 2
    /\ Len(all_embeddings) = 1
    /\ raised.kind = "RuntimeError"

\* C9: a typed text item whose text is empty or absent counts 0 tokens and
\* is embedded as the empty string: unless a backend call itself fails, the
\* request succeeds with one vector for that item.
C9_EmptyOrAbsentText ==
    (/\ Done
     /\ BackendsLoaded
     /\ IsItemList
     /\ \A k \in 1..Len(request.v) :
            /\ request.v[k].type = "text"
            /\ request.v[k].text \in {None, Str(<<>>)}
     /\ raised.kind # "RuntimeError") =>
        /\ Status = 200
        /\ Len(response.data) = Len(request.v)
        /\ response.usage.total_tokens = 0
        /\ \A k \in 1..Len(request.v) :
            response.data[k].embedding = TextVector(prefixed(Str(<<>>)))

\* C10: whenever the readiness check would pass, the image processor and
\* the tokenizer are loaded too, through every startup including a failed
\* one; and no step of a request assigns any of the four handles.
C10_Readiness ==
    /\ [](BackendsLoaded => (processor # None /\ tokenizer # None))
    /\ [][(pc # "idle" \/ pc' # "idle") => UNCHANGED handles]_vars
    /\ [][/\ processor # None => processor' = processor
          /\ vision_model # None => vision_model' = vision_model
          /\ tokenizer # None => tokenizer' = tokenizer
          /\ text_model # None => text_model' = text_model]_vars

C10_Witness ==
    /\ pc = "embed_texts"
    /\ BackendsLoaded
    /\ processor # None
    /\ tokenizer # None
    /\ startup = "failed"

=============================================================================
